---- MODULE Spec2Model ----
(***************************************************************************)
(* A model of the computation core of the trip-meetup planner:             *)
(*   - calculateMidPoint / calculateWeightedMidPoint (src/utils/mapCalc.ts) *)
(*     together with the travel-time oracle getBatchRouteTimes             *)
(*     (src/utils/amap.ts), as an asynchronous state machine;              *)
(*   - buildNearestNeighborRoute and optimizeRoute2Opt                     *)
(*     (src/pages/TripPlanPage.tsx), one loop iteration per step, and the  *)
(*     routePoints memo that calls them or sorts the stops by distance.    *)
(* Numbers: coordinates and weights are exact rationals <<num, den>> where *)
(* the code uses IEEE doubles; travel times are integers (minutes) as      *)
(* produced by Math.round.                                                 *)
(***************************************************************************)
EXTENDS Integers, Sequences, FiniteSets, TLC

VARIABLES
    \* ---- calculateWeightedMidPoint: arguments and environment
    points,         \* argument points: sequence of [lng, lat]
    mode,           \* argument mode: "straight" | "driving" | "transit"
    maxIterations,  \* argument maxIterations
    amapLoaded,     \* whether window.AMap is present
    \* ---- calculateWeightedMidPoint: locals and control
    pc,             \* "start", "await_straight", "await_loop", "await_fallback",
                    \* "await_final", "done"
    i,              \* loop counter of the refinement loop
    currentMid,     \* local currentMid (midPoint in the straight branch)
    batch,          \* the getBatchRouteTimes call being awaited
    ret,            \* value the returned promise resolved with
    \* ---- history of the invocation
    queries,        \* the getBatchRouteTimes calls made so far: <<[mode, lng, lat]>>
    sent,           \* sent[k]: route requests issued for points[k] so far
    \* ---- buildNearestNeighborRoute
    nnPoints,       \* argument points (the stops)
    nnStart,        \* argument start
    nnPc,           \* "loop" while the while-loop runs, "done" after return
    remaining,      \* local remaining
    ordered,        \* local ordered (the returned array once nnPc = "done")
    current,        \* local current
    nnSelections,   \* number of loop iterations executed
    \* ---- optimizeRoute2Opt
    optPoints,      \* argument points (the order passed in)
    optStart,       \* argument start
    optPc,          \* "call" at the call, "loop" in the while-loop, "done" after return
    route,          \* local route
    improved,       \* local improved
    iterations,     \* local iterations
    reversals,      \* history: reversals applied by the call so far
    optRet,         \* the returned array: which array it is, and its elements
    optPrev,        \* the previous call of optimizeRoute2Opt, when its output was passed back
    \* ---- TripPlanPage: the routePoints memo
    tripPoints,     \* state tripPoints
    myLocation,     \* state myLocation
    routeMode,      \* state routeMode: "tsp" | "nearby"
    routePoints,    \* value of the memo: sequence of [point, distanceFromPrev]
    isComputed,     \* state isComputed
    effect,         \* the effect of lines 197-200 scheduled by the last render, if any
    computedFor     \* history: the inputs at the last handleComputeRoute that set isComputed

solverVars == <<points, mode, maxIterations, amapLoaded, pc, i, currentMid, batch,
                ret, queries, sent>>
nnVars == <<nnPoints, nnStart, nnPc, remaining, ordered, current, nnSelections>>
optVars == <<optPoints, optStart, optPc, route, improved, iterations, reversals,
             optRet, optPrev>>
planVars == <<tripPoints, myLocation, routeMode, routePoints, isComputed, effect,
              computedFor>>
vars == <<solverVars, nnVars, optVars, planVars>>

-----------------------------------------------------------------------------
(* Bounds of the model                                                     *)

\* maxIterations is drawn from 1 .. MaxIterationsArg.
MaxIterationsArg == 2
\* Largest number of stops passed to buildNearestNeighborRoute.
MaxStops == 4

-----------------------------------------------------------------------------
(* Exact rational arithmetic standing for the code's double arithmetic     *)

Abs(x) == IF x < 0 THEN -x ELSE x

\* The arithmetic is written as functions applied to their arguments, so that an
\* argument is evaluated once, before the operation, as the source evaluates it.
GCD[a \in Nat, b \in Nat] == IF b = 0 THEN a ELSE GCD[b, a % b]

\* What a division by zero leaves behind (NaN or an infinity in the source).
NaN == <<0, 0>>

Rat == Int \X Int

\* n/d in lowest terms with a positive denominator; NaN when d = 0, so that
\* NaN propagates through every operation below.
Quotient[n \in Int, d \in Int] ==
    IF d = 0 THEN NaN
    ELSE LET g == GCD[Abs(n), Abs(d)]
             s == IF d < 0 THEN -1 ELSE 1
         IN  <<(s * n) \div g, (s * d) \div g>>
Frac(n, d) == Quotient[n, d]

FInt(n) == <<n, 1>>
Plus[a \in Rat, b \in Rat] == Frac(a[1] * b[2] + b[1] * a[2], a[2] * b[2])
Minus[a \in Rat, b \in Rat] == Frac(a[1] * b[2] - b[1] * a[2], a[2] * b[2])
Times[a \in Rat, b \in Rat] == Frac(a[1] * b[1], a[2] * b[2])
Over[a \in Rat, b \in Rat] == Frac(a[1] * b[2], a[2] * b[1])
Magnitude[a \in Rat] == <<Abs(a[1]), a[2]>>
FAdd(a, b) == Plus[a, b]
FSub(a, b) == Minus[a, b]
FMul(a, b) == Times[a, b]
FDiv(a, b) == Over[a, b]
FAbs(a) == Magnitude[a]
FLeq(a, b) == a[1] * b[2] <= b[1] * a[2]

RECURSIVE FSum(_)
FSum(s) == IF s = <<>> THEN FInt(0) ELSE FAdd(Head(s), FSum(Tail(s)))

RECURSIVE SumSeq(_)
SumSeq(s) == IF s = <<>> THEN 0 ELSE Head(s) + SumSeq(Tail(s))

\* Math.round of the rational a: the nearest integer, halves rounded up.
Rounded[a \in Rat] == (2 * a[1] + a[2]) \div (2 * a[2])
MathRound(a) == Rounded[a]

SeqMax(s) == CHOOSE x \in {s[k] : k \in DOMAIN s} : \A k \in DOMAIN s : s[k] <= x
SeqMin(s) == CHOOSE x \in {s[k] : k \in DOMAIN s} : \A k \in DOMAIN s : x <= s[k]

-----------------------------------------------------------------------------
(* Values                                                                  *)

\* The modes of MidPointMode.
Modes == {"straight", "driving", "transit"}
RoutedModes == {"driving", "transit"}

\* null, as a RouteResult | null and as a MidPoint | null.
NullRoute == [kind |-> "null"]
NullPoint == [kind |-> "null"]

\* The time getBatchRouteTimes reports for a failed route request.
SentinelTime == 999

\* The input points the invocations are drawn from, as (lng, lat).
PointPool == << [lng |-> 0, lat |-> 0], [lng |-> 0, lat |-> 10],
                [lng |-> 10, lat |-> 0], [lng |-> 10, lat |-> 10] >>

RECURSIVE Pick(_, _)
\* The elements of sequence s at the positions in S, in the order of s.
Pick(s, S) ==
    IF s = <<>> THEN <<>>
    ELSE LET rest == Pick(Tail(s), {k - 1 : k \in S \ {1}})
         IN  IF 1 \in S THEN <<Head(s)>> \o rest ELSE rest

PointLists == {Pick(PointPool, S) : S \in SUBSET (1 .. Len(PointPool))}

\* The point lists passed in driving / transit mode: those over the first three
\* points of the pool.
RoutedPointLists == {pl \in PointLists : PointPool[Len(PointPool)] \notin {pl[k] : k \in DOMAIN pl}}

\* Route durations (seconds) the routing service may answer with:
\* 20 s and 290 s round to 0 and 5 minutes, 59940 s is a 999-minute route.
Durations == {20, 290, 59940}

-----------------------------------------------------------------------------
(* calculateMidPoint                                                       *)

\* Faulty variant: points.length < 1.
TooFewPointsOff(pts) == Len(pts) < 1
\* points.length < 2
TooFewPoints(pts) == Len(pts) < 2

\* Faulty variant: the sum divided by one more than the length.
MeanOff(total, n) == Frac(total, n + 1)
\* sum / points.length
Mean(total, n) == Frac(total, n)

calculateMidPoint(pts) ==
    IF TooFewPoints(pts) THEN NullPoint
    ELSE LET sumLng == SumSeq([k \in DOMAIN pts |-> pts[k].lng])
             sumLat == SumSeq([k \in DOMAIN pts |-> pts[k].lat])
         IN  [kind |-> "point",
              lng |-> Mean(sumLng, Len(pts)),
              lat |-> Mean(sumLat, Len(pts))]

-----------------------------------------------------------------------------
(* getBatchRouteTimes, the travel-time oracle                              *)

\* window.AMap.GeometryUtil.distance(point, target) || 0, in metres. The SDK's
\* great-circle distance is abstracted to the taxicab distance at 1000 m per
\* coordinate unit; without the SDK the optional chain yields undefined, so 0.
GeometryDistance(p, lng, lat) ==
    IF ~amapLoaded THEN FInt(0)
    ELSE FMul(FInt(1000), FAdd(FAbs(FSub(FInt(p.lng), lng)),
                               FAbs(FSub(FInt(p.lat), lat))))

\* Math.round(distance / 500)
StraightTime(p, lng, lat) == MathRound(FDiv(GeometryDistance(p, lng, lat), FInt(500)))

\* A request that has not been answered, and one the service will never answer.
Pending == [st |-> "pending"]
Stalled == [st |-> "stalled"]
Resolved(t, r) == [st |-> "done", time |-> t, route |-> r]

\* The straight branch: one estimate per point and no route.
StraightResults(pts, lng, lat) ==
    [k \in 1 .. Len(pts) |-> Resolved(StraightTime(pts[k], lng, lat), NullRoute)]

\* What getDrivingRoute / getTransitRoute can produce for the request of point p
\* towards (lng, lat): null, an exception, or a route of some duration.
RouteOutcomes(m, p, lng, lat) ==
    IF ~amapLoaded THEN {NullRoute}
    ELSE {NullRoute, [kind |-> "throw"]}
         \cup {[kind |-> "route", via |-> m, duration |-> d,
                from |-> <<p.lng, p.lat>>, to |-> <<lng, lat>>] : d \in Durations}

\* Faulty variant: no catch, an exception of the route function rejects.
PointResultRethrow(o) ==
    IF o.kind = "route"
    THEN Resolved(MathRound(Frac(o.duration, 60)), o)
    ELSE IF o.kind = "throw" THEN [st |-> "rejected"]
    ELSE Resolved(SentinelTime, NullRoute)
\* The per-point async callback: a route gives Math.round(duration / 60) minutes,
\* null or an exception gives { time: 999, route: null }.
PointResult(o) ==
    IF o.kind = "route"
    THEN Resolved(MathRound(Frac(o.duration, 60)), o)
    ELSE Resolved(SentinelTime, NullRoute)

\* Faulty variant: the results in reverse index order.
BatchResultReversed(res) ==
    [times  |-> [k \in DOMAIN res |-> res[Len(res) + 1 - k].time],
     routes |-> [k \in DOMAIN res |-> res[Len(res) + 1 - k].route]]
\* results.map(r => r.time), results.map(r => r.route), results in index order
\* whatever the order in which the requests completed (Promise.all).
BatchResult(res) ==
    [times  |-> [k \in DOMAIN res |-> res[k].time],
     routes |-> [k \in DOMAIN res |-> res[k].route]]

NoBatch == [mode |-> "none", lng |-> FInt(0), lat |-> FInt(0), res |-> <<>>]

\* A call getBatchRouteTimes(pts, lng, lat, m): in straight mode the results are
\* computed at once, otherwise Promise.all starts one request per point.
NewBatch(pts, lng, lat, m) ==
    [mode |-> m, lng |-> lng, lat |-> lat,
     res  |-> IF m = "straight" THEN StraightResults(pts, lng, lat)
              ELSE [k \in 1 .. Len(pts) |-> Pending]]

AllResolved(b) == \A k \in DOMAIN b.res : b.res[k].st = "done"
InFlight(b) == Cardinality({k \in DOMAIN b.res : b.res[k].st # "done"})

-----------------------------------------------------------------------------
(* calculateWeightedMidPoint: the refinement step                          *)

\* Faulty variant: t <= 999.
validTimesInclusive(times) == SelectSeq(times, LAMBDA t : t <= 999)
\* travelTimes.filter(t => t < 999)
validTimes(times) == SelectSeq(times, LAMBDA t : t < 999)

\* validTimes.reduce((sum, t) => sum + t, 0) / validTimes.length
avgTime(valid) == Frac(SumSeq(valid), Len(valid))

\* Faulty variant: the minimum taken as 0.
maxDiffFromZero(valid) == SeqMax(valid)
\* Math.max(...validTimes) - Math.min(...validTimes)
maxDiff(valid) == SeqMax(valid) - SeqMin(valid)

\* Faulty variant: a threshold no difference is below.
ConvergedNever(valid) == maxDiff(valid) < 0
\* if (maxDiff < 5) break
Converged(valid) == maxDiff(valid) < 5

\* travelTimes.map(t => t >= 999 ? avgTime : t)
adjustedTimes(times, avg) ==
    [k \in DOMAIN times |-> IF times[k] >= 999 THEN avg ELSE FInt(times[k])]

\* Faulty variant: the ratio without the square.
weightsLinear(adj, avg) ==
    [k \in DOMAIN adj |-> FDiv(adj[k], avg)]
\* adjustedTimes.map(t => Math.pow(t / avgTime, 2))
weights(adj, avg) ==
    [k \in DOMAIN adj |-> FMul(FDiv(adj[k], avg), FDiv(adj[k], avg))]

totalWeight(w) == FSum(w)

\* points.reduce((sum, p, idx) => sum + p.lng * weights[idx], 0) / totalWeight
weightedLng(pts, w) ==
    FDiv(FSum([k \in DOMAIN pts |-> FMul(FInt(pts[k].lng), w[k])]), totalWeight(w))
weightedLat(pts, w) ==
    FDiv(FSum([k \in DOMAIN pts |-> FMul(FInt(pts[k].lat), w[k])]), totalWeight(w))

\* Faulty variant: the move overshoots, 2 * weighted position - old position.
NextMidOvershoot(pts, mid, times) ==
    LET avg == avgTime(validTimes(times))
        w   == weights(adjustedTimes(times, avg), avg)
    IN  [kind |-> "point",
         lng |-> FSub(FMul(weightedLng(pts, w), FInt(2)), mid.lng),
         lat |-> FSub(FMul(weightedLat(pts, w), FInt(2)), mid.lat)]
\* The smoothed move: 0.5 * old position + 0.5 * weighted position.
NextMid(pts, mid, times) ==
    LET avg == avgTime(validTimes(times))
        w   == weights(adjustedTimes(times, avg), avg)
    IN  [kind |-> "point",
         lng |-> FAdd(FMul(mid.lng, Frac(1, 2)), FMul(weightedLng(pts, w), Frac(1, 2))),
         lat |-> FAdd(FMul(mid.lat, Frac(1, 2)), FMul(weightedLat(pts, w), Frac(1, 2)))]

\* Faulty variant: i <= maxIterations.
LoopContinuesInclusive(n, maxIt) == n <= maxIt
\* The loop condition i < maxIterations.
LoopContinues(n, maxIt) == n < maxIt

\* routes: points.map(() => null) of the fallback return.
FallbackRoutes(pts) == [k \in 1 .. Len(pts) |-> NullRoute]

\* The values the promise of calculateWeightedMidPoint resolves with.
NotReturned == [kind |-> "none"]
ReturnedNull == [kind |-> "null"]
Result(mid, times, rts, fallback) ==
    [kind |-> "result", midPoint |-> mid, travelTimes |-> times, routes |-> rts,
     usedStraightFallback |-> fallback]

\* Faulty variant: the fallback returns the geometric centroid, not the candidate.
FallbackReturnCentroid(pts, mid, fallbackResult) ==
    Result(calculateMidPoint(pts), fallbackResult.times, FallbackRoutes(pts), "true")
\* Faulty variant: the fallback return without its flag.
FallbackReturnUnflagged(pts, mid, fallbackResult) ==
    Result(mid, fallbackResult.times, FallbackRoutes(pts), "false")
\* The fallback return: straight times, null routes, usedStraightFallback: true.
FallbackReturn(pts, mid, fallbackResult) ==
    Result(mid, fallbackResult.times, FallbackRoutes(pts), "true")

-----------------------------------------------------------------------------
(* calculateWeightedMidPoint: the invocation as a state machine            *)

Awaiting == {"await_straight", "await_loop", "await_fallback", "await_final"}

\* The effect of calling getBatchRouteTimes(points, mid.lng, mid.lat, m).
Issue(m, mid) ==
    /\ batch' = NewBatch(points, mid.lng, mid.lat, m)
    /\ queries' = Append(queries, [mode |-> m, lng |-> mid.lng, lat |-> mid.lat])
    /\ sent' = IF m = "straight" THEN sent ELSE [k \in DOMAIN sent |-> sent[k] + 1]

\* Entering the for statement with counter n and candidate mid: another loop
\* query while n < maxIterations, otherwise the final query after the loop.
EnterLoop(n, mid) ==
    /\ Issue(mode, mid)
    /\ pc' = IF LoopContinues(n, maxIterations) THEN "await_loop" ELSE "await_final"

\* The call runs synchronously up to its first await.
Call ==
    /\ pc = "start"
    /\ IF TooFewPoints(points)
       THEN /\ ret' = ReturnedNull
            /\ pc' = "done"
            /\ UNCHANGED <<i, currentMid, batch, queries, sent>>
       ELSE IF mode = "straight"
       THEN LET midPoint == calculateMidPoint(points)
            IN  /\ currentMid' = midPoint
                /\ Issue(mode, midPoint)
                /\ pc' = "await_straight"
                /\ UNCHANGED <<i, ret>>
       ELSE LET midPoint == calculateMidPoint(points)
            IN  /\ currentMid' = midPoint
                /\ i' = 0
                /\ EnterLoop(0, midPoint)
                /\ UNCHANGED ret
    /\ UNCHANGED <<points, mode, maxIterations, amapLoaded, nnVars, optVars, planVars>>

\* The routing service answers the request of point k (or the route function
\* returns null or throws), and the per-point callback records the outcome.
Respond(k) ==
    /\ pc \in {"await_loop", "await_final"}
    /\ k \in DOMAIN batch.res
    /\ batch.res[k] = Pending
    /\ \E o \in RouteOutcomes(batch.mode, points[k], batch.lng, batch.lat) :
           batch' = [batch EXCEPT !.res[k] = PointResult(o)]
    /\ UNCHANGED <<points, mode, maxIterations, amapLoaded, pc, i, currentMid, ret,
                   queries, sent, nnVars, optVars, planVars>>

\* The routing service drops the request of point k: its callback is never called.
Stall(k) ==
    /\ pc \in {"await_loop", "await_final"}
    /\ amapLoaded
    /\ k \in DOMAIN batch.res
    /\ batch.res[k] = Pending
    /\ batch' = [batch EXCEPT !.res[k] = Stalled]
    /\ UNCHANGED <<points, mode, maxIterations, amapLoaded, pc, i, currentMid, ret,
                   queries, sent, nnVars, optVars, planVars>>

\* The straight branch resumes and returns.
ResumeStraight ==
    /\ pc = "await_straight"
    /\ AllResolved(batch)
    /\ LET result == BatchResult(batch.res)
       IN  ret' = Result(currentMid, result.times, result.routes, "undefined")
    /\ pc' = "done"
    /\ batch' = NoBatch
    /\ UNCHANGED <<points, mode, maxIterations, amapLoaded, i, currentMid, queries,
                   sent, nnVars, optVars, planVars>>

\* Faulty variant: the loop query is not awaited, the final query is issued at once.
ResumeLoopNoAwait ==
    /\ pc = "await_loop"
    /\ Issue(mode, currentMid)
    /\ pc' = "await_final"
    /\ UNCHANGED <<i, currentMid>>
    /\ UNCHANGED <<points, mode, maxIterations, amapLoaded, ret, nnVars, optVars, planVars>>

\* A loop iteration resumes after its query: fall back, break, or move the
\* candidate and go round the loop.
ResumeLoop ==
    /\ pc = "await_loop"
    /\ AllResolved(batch)
    /\ LET result == BatchResult(batch.res)
           valid  == validTimes(result.times)
       IN  IF Len(valid) = 0
           THEN /\ Issue("straight", currentMid)
                /\ pc' = "await_fallback"
                /\ UNCHANGED <<i, currentMid>>
           ELSE IF Converged(valid)
           THEN /\ Issue(mode, currentMid)
                /\ pc' = "await_final"
                /\ UNCHANGED <<i, currentMid>>
           ELSE LET newMid == NextMid(points, currentMid, result.times)
                IN  /\ currentMid' = newMid
                    /\ i' = i + 1
                    /\ EnterLoop(i + 1, newMid)
    /\ UNCHANGED <<points, mode, maxIterations, amapLoaded, ret, nnVars, optVars, planVars>>

\* The fallback query resumes and returns.
ResumeFallback ==
    /\ pc = "await_fallback"
    /\ AllResolved(batch)
    /\ ret' = FallbackReturn(points, currentMid, BatchResult(batch.res))
    /\ pc' = "done"
    /\ batch' = NoBatch
    /\ UNCHANGED <<points, mode, maxIterations, amapLoaded, i, currentMid, queries,
                   sent, nnVars, optVars, planVars>>

\* The final query resumes and returns.
ResumeFinal ==
    /\ pc = "await_final"
    /\ AllResolved(batch)
    /\ LET finalResult == BatchResult(batch.res)
       IN  ret' = Result(currentMid, finalResult.times, finalResult.routes, "false")
    /\ pc' = "done"
    /\ batch' = NoBatch
    /\ UNCHANGED <<points, mode, maxIterations, amapLoaded, i, currentMid, queries,
                   sent, nnVars, optVars, planVars>>

-----------------------------------------------------------------------------
(* calculateDistance and getDistance                                       *)

\* calculateDistance(lng1, lat1, lng2, lat2) in centimetres: the haversine formula
\* of the source evaluated in double arithmetic on the integer-degree grid
\* 0..3 x 0..1 and rounded to the centimetre, one entry per ordered pair.
HaversineCm ==
    <<0, 0, 0, 0>> :> 0 @@
    <<0, 0, 0, 1>> :> 11119493 @@
    <<0, 0, 1, 0>> :> 11119493 @@
    <<0, 0, 1, 1>> :> 15724938 @@
    <<0, 0, 2, 0>> :> 22238985 @@
    <<0, 0, 2, 1>> :> 24862931 @@
    <<0, 0, 3, 0>> :> 33358478 @@
    <<0, 0, 3, 1>> :> 35161316 @@
    <<0, 1, 0, 0>> :> 11119493 @@
    <<0, 1, 0, 1>> :> 0 @@
    <<0, 1, 1, 0>> :> 15724938 @@
    <<0, 1, 1, 1>> :> 11117799 @@
    <<0, 1, 2, 0>> :> 24862931 @@
    <<0, 1, 2, 1>> :> 22235598 @@
    <<0, 1, 3, 0>> :> 35161316 @@
    <<0, 1, 3, 1>> :> 33353396 @@
    <<1, 0, 0, 0>> :> 11119493 @@
    <<1, 0, 0, 1>> :> 15724938 @@
    <<1, 0, 1, 0>> :> 0 @@
    <<1, 0, 1, 1>> :> 11119493 @@
    <<1, 0, 2, 0>> :> 11119493 @@
    <<1, 0, 2, 1>> :> 15724938 @@
    <<1, 0, 3, 0>> :> 22238985 @@
    <<1, 0, 3, 1>> :> 24862931 @@
    <<1, 1, 0, 0>> :> 15724938 @@
    <<1, 1, 0, 1>> :> 11117799 @@
    <<1, 1, 1, 0>> :> 11119493 @@
    <<1, 1, 1, 1>> :> 0 @@
    <<1, 1, 2, 0>> :> 15724938 @@
    <<1, 1, 2, 1>> :> 11117799 @@
    <<1, 1, 3, 0>> :> 24862931 @@
    <<1, 1, 3, 1>> :> 22235598 @@
    <<2, 0, 0, 0>> :> 22238985 @@
    <<2, 0, 0, 1>> :> 24862931 @@
    <<2, 0, 1, 0>> :> 11119493 @@
    <<2, 0, 1, 1>> :> 15724938 @@
    <<2, 0, 2, 0>> :> 0 @@
    <<2, 0, 2, 1>> :> 11119493 @@
    <<2, 0, 3, 0>> :> 11119493 @@
    <<2, 0, 3, 1>> :> 15724938 @@
    <<2, 1, 0, 0>> :> 24862931 @@
    <<2, 1, 0, 1>> :> 22235598 @@
    <<2, 1, 1, 0>> :> 15724938 @@
    <<2, 1, 1, 1>> :> 11117799 @@
    <<2, 1, 2, 0>> :> 11119493 @@
    <<2, 1, 2, 1>> :> 0 @@
    <<2, 1, 3, 0>> :> 15724938 @@
    <<2, 1, 3, 1>> :> 11117799 @@
    <<3, 0, 0, 0>> :> 33358478 @@
    <<3, 0, 0, 1>> :> 35161316 @@
    <<3, 0, 1, 0>> :> 22238985 @@
    <<3, 0, 1, 1>> :> 24862931 @@
    <<3, 0, 2, 0>> :> 11119493 @@
    <<3, 0, 2, 1>> :> 15724938 @@
    <<3, 0, 3, 0>> :> 0 @@
    <<3, 0, 3, 1>> :> 11119493 @@
    <<3, 1, 0, 0>> :> 35161316 @@
    <<3, 1, 0, 1>> :> 33353396 @@
    <<3, 1, 1, 0>> :> 24862931 @@
    <<3, 1, 1, 1>> :> 22235598 @@
    <<3, 1, 2, 0>> :> 15724938 @@
    <<3, 1, 2, 1>> :> 11117799 @@
    <<3, 1, 3, 0>> :> 11119493 @@
    <<3, 1, 3, 1>> :> 0

\* Faulty variant: along the parallel of the first point, then along the meridian.
calculateDistanceSkewed(lng1, lat1, lng2, lat2) ==
    HaversineCm[<<lng1, lat1, lng2, lat1>>] + HaversineCm[<<lng2, lat1, lng2, lat2>>]
calculateDistance(lng1, lat1, lng2, lat2) == HaversineCm[<<lng1, lat1, lng2, lat2>>]

getDistance(a, b) == calculateDistance(a.lng, a.lat, b.lng, b.lat)

-----------------------------------------------------------------------------
(* buildNearestNeighborRoute                                               *)

\* The stops the stop lists are drawn from: "a" and "b" are equally far from
\* (0, 0), "e" has the coordinates of "a".
StopPool == { [id |-> "a", lng |-> 1, lat |-> 0], [id |-> "b", lng |-> 0, lat |-> 1],
              [id |-> "c", lng |-> 2, lat |-> 0], [id |-> "d", lng |-> 3, lat |-> 1],
              [id |-> "e", lng |-> 1, lat |-> 0] }

StartPool == { [id |-> "me", lng |-> 0, lat |-> 0], [id |-> "me", lng |-> 2, lat |-> 1] }

SeqsUpTo(S, n) == UNION {[1 .. m -> S] : m \in 0 .. n}

\* Number.POSITIVE_INFINITY as the initial bestDistance.
Infinity == [inf |-> TRUE, val |-> 0]
Finite(d) == [inf |-> FALSE, val |-> d]

\* Faulty variant: distance <= bestDistance.
CloserOrEqual(d, best) == best.inf \/ d <= best.val
\* distance < bestDistance
Closer(d, best) == best.inf \/ d < best.val

RECURSIVE ScanBest(_, _, _, _, _)
\* remaining.forEach((candidate, index) => ...) from position index on, with the
\* accumulators bestIndex and bestDistance; positions are counted from 1.
ScanBest(rem, cur, index, bestIndex, bestDistance) ==
    IF index > Len(rem) THEN bestIndex
    ELSE LET distance == getDistance(cur, rem[index])
         IN  IF Closer(distance, bestDistance)
             THEN ScanBest(rem, cur, index + 1, index, Finite(distance))
             ELSE ScanBest(rem, cur, index + 1, bestIndex, bestDistance)

\* bestIndex after the scan (initially 0 in the source, position 1 here).
BestIndex(rem, cur) == ScanBest(rem, cur, 1, 1, Infinity)

\* Faulty variant: removes the last element unless bestIndex is the first.
SpliceKeepFirst(s, k) == IF k = 1 THEN Tail(s) ELSE SubSeq(s, 1, Len(s) - 1)
\* remaining after remaining.splice(bestIndex, 1)
Splice(s, k) == SubSeq(s, 1, k - 1) \o SubSeq(s, k + 1, Len(s))

\* const remaining = [...points]: remaining designates a new array, so that
\* remaining.splice writes to that array and not to the argument.
NNRemainingArray == "remaining"

\* One iteration of while (remaining.length > 0).
NNSelect ==
    /\ nnPc = "loop"
    /\ Len(remaining) > 0
    /\ LET bestIndex == BestIndex(remaining, current)
           next == remaining[bestIndex]
       IN  /\ remaining' = Splice(remaining, bestIndex)
           /\ ordered' = Append(ordered, next)
           /\ current' = next
    /\ nnSelections' = nnSelections + 1
    /\ nnPoints' = IF NNRemainingArray = "points"
                   THEN Splice(remaining, BestIndex(remaining, current))
                   ELSE nnPoints
    /\ UNCHANGED <<nnStart, nnPc, solverVars, optVars, planVars>>

\* The loop condition fails: return ordered.
NNReturn ==
    /\ nnPc = "loop"
    /\ Len(remaining) = 0
    /\ nnPc' = "done"
    /\ UNCHANGED <<nnPoints, nnStart, remaining, ordered, current, nnSelections,
                   solverVars, optVars, planVars>>

-----------------------------------------------------------------------------
(* optimizeRoute2Opt                                                       *)

\* const maxIterations = 6
OptMaxIterations == 6

\* The tolerance 0.01 (metres) of the comparison, in centimetres.
OptTolerance == 1

\* Faulty variant: points.length < 2.
TooShortToOptimizeOff(pts) == Len(pts) < 2
\* points.length < 3
TooShortToOptimize(pts) == Len(pts) < 3

Reverse(s) == [k \in 1 .. Len(s) |-> s[Len(s) + 1 - k]]

\* Positions are counted from 1: position ii is the source's i + 1, kk its k + 1.
\* a = i === 0 ? start : route[i - 1]
PointBefore(r, start, ii) == IF ii = 1 THEN start ELSE r[ii - 1]

\* currentDist = getDistance(a, b) + (d ? getDistance(c, d) : 0)
currentDist(r, start, ii, kk) ==
    getDistance(PointBefore(r, start, ii), r[ii])
        + (IF kk + 1 <= Len(r) THEN getDistance(r[kk], r[kk + 1]) ELSE 0)

\* swappedDist = getDistance(a, c) + (d ? getDistance(b, d) : 0)
swappedDist(r, start, ii, kk) ==
    getDistance(PointBefore(r, start, ii), r[kk])
        + (IF kk + 1 <= Len(r) THEN getDistance(r[ii], r[kk + 1]) ELSE 0)

\* Faulty variant: the comparison the other way round.
ImprovesBackwards(r, start, ii, kk) ==
    swappedDist(r, start, ii, kk) > currentDist(r, start, ii, kk) + OptTolerance
\* swappedDist + 0.01 < currentDist
Improves(r, start, ii, kk) ==
    swappedDist(r, start, ii, kk) + OptTolerance < currentDist(r, start, ii, kk)

\* The pairs (i, k) the two for-loops visit.
ScannedPairs(r) == {p \in (1 .. Len(r) - 1) \X (2 .. Len(r)) : p[1] < p[2]}

ImprovingPairs(r, start) == {p \in ScannedPairs(r) : Improves(r, start, p[1], p[2])}

\* Faulty variant: the scan goes on to the last improving pair.
LastImproving(r, start) ==
    CHOOSE p \in ImprovingPairs(r, start) :
        \A q \in ImprovingPairs(r, start) :
            q[1] < p[1] \/ (q[1] = p[1] /\ q[2] <= p[2])
\* The pair at which the scan breaks: the first in the order of the loops.
FirstImproving(r, start) ==
    CHOOSE p \in ImprovingPairs(r, start) :
        \A q \in ImprovingPairs(r, start) :
            p[1] < q[1] \/ (p[1] = q[1] /\ p[2] <= q[2])

\* Faulty variant: route.slice(0, i + 1) in front of the reversed part.
ReversalOverlapping(r, ii, kk) ==
    SubSeq(r, 1, ii) \o Reverse(SubSeq(r, ii, kk)) \o SubSeq(r, kk + 1, Len(r))
\* [...route.slice(0, i), ...route.slice(i, k + 1).reverse(), ...route.slice(k + 1)]
Reversal(r, ii, kk) ==
    SubSeq(r, 1, ii - 1) \o Reverse(SubSeq(r, ii, kk)) \o SubSeq(r, kk + 1, Len(r))

\* Faulty variant: improved is left false after a reversal.
PassImprovedNever(r, start) == FALSE
\* improved at the end of a pass of the while-loop: set by the first improving pair.
PassImproved(r, start) == ImprovingPairs(r, start) # {}

\* Faulty variant: the loop condition without the pass limit.
OptContinuesUncapped(imp, n) == imp
\* improved && iterations < maxIterations
OptContinues(imp, n) == imp /\ n < OptMaxIterations

\* Orders of five stops on which more passes would be needed than the limit
\* allows: from (0, 0) the first takes exactly 6 reversals, the second would
\* take 8.
LongOrders ==
    LET a == [id |-> "a", lng |-> 1, lat |-> 0]
        b == [id |-> "b", lng |-> 0, lat |-> 1]
        d == [id |-> "d", lng |-> 3, lat |-> 1]
        f == [id |-> "f", lng |-> 3, lat |-> 0]
        g == [id |-> "g", lng |-> 0, lat |-> 0]
    IN  { <<b, a, d, f, g>>, <<f, a, b, d, g>> }

NoArray == [ref |-> "none", val |-> <<>>]
ArrayOf(name, elems) == [ref |-> name, val |-> elems]

NoPrevCall == [kind |-> "none", input |-> <<>>, output |-> <<>>, exhausted |-> FALSE]

\* The call up to the while-loop: return points itself when there are fewer than
\* 3 of them, otherwise copy them into route.
OptEnter ==
    /\ optPc = "call"
    /\ IF TooShortToOptimize(optPoints)
       THEN /\ optRet' = ArrayOf("points", optPoints)
            /\ optPc' = "done"
            /\ reversals' = 0
            /\ UNCHANGED <<route, improved, iterations>>
       ELSE /\ route' = optPoints
            /\ improved' = TRUE
            /\ iterations' = 0
            /\ reversals' = 0
            /\ optPc' = "loop"
            /\ UNCHANGED optRet
    /\ UNCHANGED <<optPoints, optStart, optPrev, solverVars, nnVars, planVars>>

\* One pass of while (improved && iterations < maxIterations): the scan up to
\* its first improving pair, and the reversal at that pair.
OptPass ==
    /\ optPc = "loop"
    /\ OptContinues(improved, iterations)
    /\ iterations' = iterations + 1
    /\ reversals' = IF ImprovingPairs(route, optStart) # {} THEN reversals + 1 ELSE reversals
    /\ improved' = PassImproved(route, optStart)
    /\ route' = IF ImprovingPairs(route, optStart) # {}
                THEN LET p == FirstImproving(route, optStart)
                     IN  Reversal(route, p[1], p[2])
                ELSE route
    /\ UNCHANGED <<optPoints, optStart, optPc, optRet, optPrev, solverVars, nnVars,
                   planVars>>

\* The loop condition fails: return route.
OptReturn ==
    /\ optPc = "loop"
    /\ ~OptContinues(improved, iterations)
    /\ optRet' = ArrayOf("route", route)
    /\ optPc' = "done"
    /\ UNCHANGED <<optPoints, optStart, route, improved, iterations, reversals, optPrev,
                   solverVars, nnVars, planVars>>

\* A caller passes the returned order back to optimizeRoute2Opt with the same start.
OptRerun ==
    /\ optPc = "done"
    /\ nnPc = "idle"
    /\ optPrev = NoPrevCall
    /\ optPrev' = [kind |-> "call", input |-> optPoints, output |-> optRet.val,
                   exhausted |-> (optRet.ref = "route" /\ ~improved)]
    /\ optPoints' = optRet.val
    /\ optRet' = NoArray
    /\ optPc' = "call"
    /\ UNCHANGED <<optStart, route, improved, iterations, reversals, solverVars, nnVars,
                   planVars>>

-----------------------------------------------------------------------------
(* TripPlanPage: the routePoints memo (myLocation set, isComputed true)    *)

RouteModes == {"tsp", "nearby"}

NotComputed == [computed |-> FALSE, items |-> <<>>]
Computed(items) == [computed |-> TRUE, items |-> items]

\* { point, distanceFromPrev }
RouteItem(p, d) == [point |-> p, distanceFromPrev |-> d]

\* Faulty variant: the operands exchanged.
NearbyCompareReversed(a, b) == b.distanceFromPrev - a.distanceFromPrev
\* (a.distanceFromPrev || 0) - (b.distanceFromPrev || 0): a distance here is a
\* number, and 0 || 0 is 0.
NearbyCompare(a, b) == a.distanceFromPrev - b.distanceFromPrev

RECURSIVE InsertSorted(_, _)
\* x placed in the sorted s before the first element that must come after it.
InsertSorted(s, x) ==
    IF s = <<>> THEN <<x>>
    ELSE IF NearbyCompare(x, Head(s)) < 0 THEN <<x>> \o s
    ELSE <<Head(s)>> \o InsertSorted(Tail(s), x)

RECURSIVE SortItems(_)
\* Array.prototype.sort with the comparator above: a stable sort (ECMAScript 2019).
SortItems(s) ==
    IF s = <<>> THEN <<>>
    ELSE InsertSorted(SortItems(SubSeq(s, 1, Len(s) - 1)), s[Len(s)])

\* routeMode === 'nearby': every trip point with its distance to myLocation, sorted.
NearbyRoute(pts, me) ==
    SortItems([k \in 1 .. Len(pts) |-> RouteItem(pts[k], getDistance(me, pts[k]))])

\* optimizedRoute.forEach: every point with its distance to the point before it.
LegRoute(r, me) ==
    [k \in 1 .. Len(r) |-> RouteItem(r[k], getDistance(PointBefore(r, me, k), r[k]))]

\* The memo computes the nearby ordering.
PlanNearby ==
    /\ routeMode = "nearby"
    /\ nnPc = "idle" /\ optPc = "idle"
    /\ ~routePoints.computed
    /\ routePoints' = Computed(NearbyRoute(tripPoints, myLocation))
    /\ UNCHANGED <<tripPoints, myLocation, routeMode, isComputed, effect, computedFor,
                   solverVars, nnVars, optVars>>

\* optimizeRoute2Opt(nearestRoute, myLocation) is called.
PlanOptimize ==
    /\ routeMode = "tsp"
    /\ nnPc = "done" /\ optPc = "idle"
    /\ optPoints' = ordered
    /\ optStart' = myLocation
    /\ optPc' = "call"
    /\ UNCHANGED <<route, improved, iterations, reversals, optRet, optPrev, solverVars,
                   nnVars, planVars>>

\* The memo builds its value from the optimized route.
PlanResult ==
    /\ routeMode = "tsp"
    /\ nnPc = "done" /\ optPc = "done"
    /\ ~routePoints.computed
    /\ routePoints' = Computed(LegRoute(optRet.val, myLocation))
    /\ UNCHANGED <<tripPoints, myLocation, routeMode, isComputed, effect, computedFor,
                   solverVars, nnVars, optVars>>

-----------------------------------------------------------------------------
(* TripPlanPage: isComputed, the handlers and the resetting effect         *)

\* useState<LocationPoint | null>(null)
NullLocation == [id |-> "null", lng |-> 0, lat |-> 0]

\* No effect is scheduled; the effect scheduled by a render in which isComputed
\* was ic (the value its closure reads).
NoEffect == [pending |-> FALSE, isComputed |-> FALSE]
Scheduled(ic) == [pending |-> TRUE, isComputed |-> ic]

NeverComputed == [kind |-> "none"]
Inputs(tp, loc, rm) == [kind |-> "inputs", tripPoints |-> tp, myLocation |-> loc, routeMode |-> rm]

\* Faulty variant: routeMode is missing from the dependency list.
EffectDepsWithoutMode == {"tripPoints", "myLocation"}
\* The dependency list [tripPoints, myLocation, routeMode] of the effect.
EffectDeps == {"tripPoints", "myLocation", "routeMode"}

\* The guards of handleComputeRoute: myLocation is set and there is a trip point.
CanCompute(loc, tp) == loc # NullLocation /\ Len(tp) # 0

\* tripPoints.some(item => item.lng === point.lng && item.lat === point.lat)
Exists(tp, p) == \E k \in DOMAIN tp : tp[k].lng = p.lng /\ tp[k].lat = p.lat

\* tripPoints.filter(item => item.id !== id)
WithoutId(tp, id) == SelectSeq(tp, LAMBDA item : item.id # id)

RECURSIVE NearestOrder(_, _)
\* buildNearestNeighborRoute as a function: the nearest remaining stop, then the
\* rest from there.
NearestOrder(rem, cur) ==
    IF rem = <<>> THEN <<>>
    ELSE LET best == BestIndex(rem, cur)
         IN  <<rem[best]>> \o NearestOrder(Splice(rem, best), rem[best])

RECURSIVE TwoOptLoop(_, _, _, _)
\* The while-loop of optimizeRoute2Opt as a function of its locals.
TwoOptLoop(r, start, imp, n) ==
    IF ~OptContinues(imp, n) THEN r
    ELSE IF PassImproved(r, start)
    THEN LET p == FirstImproving(r, start)
         IN  TwoOptLoop(Reversal(r, p[1], p[2]), start, TRUE, n + 1)
    ELSE r

TwoOpt(pts, start) ==
    IF TooShortToOptimize(pts) THEN pts ELSE TwoOptLoop(pts, start, TRUE, 0)

\* tripPoints.map(point => ({ point })): the list as entered, without distances.
Unranked(tp) == [computed |-> FALSE, items |-> [k \in 1 .. Len(tp) |-> [point |-> tp[k]]]]

\* The value of the routePoints memo in a render with the given state.
MemoValue(tp, loc, ic, rm) ==
    IF loc = NullLocation \/ ~ic THEN Unranked(tp)
    ELSE IF rm = "nearby" THEN Computed(NearbyRoute(tp, loc))
    ELSE Computed(LegRoute(TwoOpt(NearestOrder(tp, loc), loc), loc))

\* isComputed after the effect of the previous render, if one is still
\* scheduled, has run on top of the handler's update ic: React runs it before
\* the next render, and its setIsComputed(false) is the last update queued.
AfterEffect(ic) == IF effect.pending /\ effect.isComputed THEN FALSE ELSE ic

\* The render that follows a handler: the state it commits, the memo, and the
\* effect it schedules when one of its dependencies has a new value.
Render(tp, loc, rm, ic, changed) ==
    /\ tripPoints' = tp
    /\ myLocation' = loc
    /\ routeMode' = rm
    /\ isComputed' = AfterEffect(ic)
    /\ routePoints' = MemoValue(tp, loc, AfterEffect(ic), rm)
    /\ effect' = IF changed \cap EffectDeps # {} THEN Scheduled(AfterEffect(ic)) ELSE NoEffect

\* handleLocateMe after a successful getCurrentLocation, or handleMapClick in
\* manual-location mode: setMyLocation of a new object.
LocateMe(p) ==
    /\ Render(tripPoints, p, routeMode, isComputed, {"myLocation"})
    /\ UNCHANGED <<computedFor, solverVars, nnVars, optVars>>

\* addTripPoint of a point whose coordinates are not in the list yet (otherwise
\* it returns false and sets no state).
AddTripPoint(p) ==
    /\ ~Exists(tripPoints, p)
    /\ Len(tripPoints) < MaxStops
    /\ Render(Append(tripPoints, p), myLocation, routeMode, isComputed, {"tripPoints"})
    /\ UNCHANGED <<computedFor, solverVars, nnVars, optVars>>

\* removeTripPoint(id): the filtered list is a new array even when no point has
\* that id.
RemoveTripPoint(id) ==
    /\ Render(WithoutId(tripPoints, id), myLocation, routeMode, isComputed, {"tripPoints"})
    /\ UNCHANGED <<computedFor, solverVars, nnVars, optVars>>

\* clearTripPoints: a new empty array.
ClearTripPoints ==
    /\ Render(<<>>, myLocation, routeMode, isComputed, {"tripPoints"})
    /\ UNCHANGED <<computedFor, solverVars, nnVars, optVars>>

\* onChange of the route mode select: setRouteMode(value); setting the value the
\* state already has causes no render.
SetRouteMode(m) ==
    /\ m # routeMode
    /\ Render(tripPoints, myLocation, m, isComputed, {"routeMode"})
    /\ UNCHANGED <<computedFor, solverVars, nnVars, optVars>>

\* handleComputeRoute past its two guards: setIsComputed(true).
ComputeRoute ==
    /\ CanCompute(myLocation, tripPoints)
    /\ Render(tripPoints, myLocation, routeMode, TRUE, {})
    /\ computedFor' = Inputs(tripPoints, myLocation, routeMode)
    /\ UNCHANGED <<solverVars, nnVars, optVars>>

\* The scheduled effect runs: if (!isComputed) return; setIsComputed(false), and
\* the render that follows it, in which no dependency has changed.
RunEffect ==
    /\ effect.pending
    /\ Render(tripPoints, myLocation, routeMode, isComputed, {})
    /\ UNCHANGED <<computedFor, solverVars, nnVars, optVars>>

-----------------------------------------------------------------------------
(* Specifications                                                          *)

SolverIdle ==
    /\ points = <<>>
    /\ mode = "straight"
    /\ maxIterations = 3
    /\ amapLoaded = TRUE
    /\ pc = "idle"
    /\ i = 0
    /\ currentMid = NullPoint
    /\ batch = NoBatch
    /\ ret = NotReturned
    /\ queries = <<>>
    /\ sent = <<>>

NNIdle ==
    /\ nnPoints = <<>>
    /\ nnStart = [id |-> "me", lng |-> 0, lat |-> 0]
    /\ nnPc = "idle"
    /\ remaining = <<>>
    /\ ordered = <<>>
    /\ current = nnStart
    /\ nnSelections = 0

\* An invocation calculateWeightedMidPoint(points, mode, city, maxIterations).
InitSolver ==
    /\ points \in PointLists
    /\ mode \in Modes
    /\ mode \in RoutedModes => points \in RoutedPointLists
    /\ maxIterations \in 1 .. MaxIterationsArg
    /\ amapLoaded \in BOOLEAN
    /\ pc = "start"
    /\ i = 0
    /\ currentMid = NullPoint
    /\ batch = NoBatch
    /\ ret = NotReturned
    /\ queries = <<>>
    /\ sent = [k \in 1 .. Len(points) |-> 0]

\* An invocation buildNearestNeighborRoute(points, start), after the
\* declarations of remaining, ordered and current.
InitNN ==
    /\ nnPoints \in SeqsUpTo(StopPool, MaxStops)
    /\ nnStart \in StartPool
    /\ nnPc = "loop"
    /\ remaining = nnPoints
    /\ ordered = <<>>
    /\ current = nnStart
    /\ nnSelections = 0

OptIdle ==
    /\ optPoints = <<>>
    /\ optStart = [id |-> "me", lng |-> 0, lat |-> 0]
    /\ optPc = "idle"
    /\ route = <<>>
    /\ improved = FALSE
    /\ iterations = 0
    /\ reversals = 0
    /\ optRet = NoArray
    /\ optPrev = NoPrevCall

PlanIdle ==
    /\ tripPoints = <<>>
    /\ myLocation = [id |-> "me", lng |-> 0, lat |-> 0]
    /\ routeMode = "tsp"
    /\ routePoints = NotComputed
    /\ isComputed = FALSE
    /\ effect = NoEffect
    /\ computedFor = NeverComputed

\* An invocation optimizeRoute2Opt(points, start) on any order.
InitOpt ==
    /\ optPoints \in SeqsUpTo(StopPool, MaxStops) \cup LongOrders
    /\ optStart \in StartPool
    /\ optPc = "call"
    /\ route = <<>>
    /\ improved = FALSE
    /\ iterations = 0
    /\ reversals = 0
    /\ optRet = NoArray
    /\ optPrev = NoPrevCall

\* The memo in 'tsp' mode, at its call buildNearestNeighborRoute(tripPoints, myLocation).
InitPlanTsp ==
    /\ InitNN
    /\ OptIdle
    /\ tripPoints = nnPoints
    /\ myLocation = nnStart
    /\ routeMode = "tsp"
    /\ routePoints = NotComputed
    /\ isComputed = TRUE
    /\ effect = NoEffect
    /\ computedFor = Inputs(tripPoints, myLocation, routeMode)

\* The memo in 'nearby' mode.
InitPlanNearby ==
    /\ NNIdle
    /\ OptIdle
    /\ tripPoints \in SeqsUpTo(StopPool, MaxStops)
    /\ myLocation \in StartPool
    /\ routeMode = "nearby"
    /\ routePoints = NotComputed
    /\ isComputed = TRUE
    /\ effect = NoEffect
    /\ computedFor = Inputs(tripPoints, myLocation, routeMode)

Init == InitSolver /\ NNIdle /\ OptIdle /\ PlanIdle

Next ==
    \/ Call
    \/ \E k \in 1 .. Len(points) : Respond(k)
    \/ \E k \in 1 .. Len(points) : Stall(k)
    \/ ResumeStraight
    \/ ResumeLoop
    \/ ResumeFallback
    \/ ResumeFinal

Spec == Init /\ [][Next]_vars

\* The event loop runs every continuation that is ready, and the routing service
\* decides about every request: answer it (Respond) or never call back (Stall).
LiveSpec == Spec /\ WF_vars(Next)

\* The route sequencer: the memo in either mode, or a direct call of
\* optimizeRoute2Opt.
InitRoute ==
    /\ SolverIdle
    /\ \/ InitPlanTsp
       \/ InitPlanNearby
       \/ NNIdle /\ InitOpt /\ PlanIdle

NextRoute ==
    \/ NNSelect
    \/ NNReturn
    \/ PlanOptimize
    \/ OptEnter
    \/ OptPass
    \/ OptReturn
    \/ OptRerun
    \/ PlanResult
    \/ PlanNearby

SpecRoute == InitRoute /\ [][NextRoute]_vars

\* The whole core: an invocation of the midpoint solver or of the route sequencer.
InitCore == Init \/ InitRoute

NextCore == Next \/ NextRoute

SpecCore == InitCore /\ [][NextCore]_vars

\* The page after its first render: no location, no trip point, mode 'tsp'.
InitPage ==
    /\ SolverIdle /\ NNIdle /\ OptIdle
    /\ tripPoints = <<>>
    /\ myLocation = NullLocation
    /\ routeMode = "tsp"
    /\ isComputed = FALSE
    /\ routePoints = MemoValue(<<>>, NullLocation, FALSE, "tsp")
    /\ effect = NoEffect
    /\ computedFor = NeverComputed

NextPage ==
    \/ \E p \in StartPool : LocateMe(p)
    \/ \E p \in StopPool : AddTripPoint(p)
    \/ \E p \in StopPool : RemoveTripPoint(p.id)
    \/ ClearTripPoints
    \/ \E m \in RouteModes : SetRouteMode(m)
    \/ ComputeRoute
    \/ RunEffect

SpecPage == InitPage /\ [][NextPage]_vars

-----------------------------------------------------------------------------
(* Properties of calculateWeightedMidPoint                                 *)

Routed == mode \in RoutedModes
Returned == pc = "done" /\ ret.kind = "result"

\* The batch being awaited is complete and carries time 999 for every point.
AllSentinel(b) == AllResolved(b) /\ \A k \in DOMAIN b.res : b.res[k].time = SentinelTime

\* The straight-mode estimates of all points towards mid.
StraightEstimate(mid) ==
    [k \in 1 .. Len(points) |-> StraightTime(points[k], mid.lng, mid.lat)]

\* mid is the arithmetic mean of the longitudes and of the latitudes of points.
IsCentroid(mid) ==
    /\ mid.kind = "point"
    /\ FMul(mid.lng, FInt(Len(points))) = FInt(SumSeq([k \in DOMAIN points |-> points[k].lng]))
    /\ FMul(mid.lat, FInt(Len(points))) = FInt(SumSeq([k \in DOMAIN points |-> points[k].lat]))

RoutedQueries == Cardinality({q \in DOMAIN queries : queries[q].mode \in RoutedModes})

\* C1: in driving or transit mode, when a loop iteration's query comes back with
\* the sentinel 999 for every point, the invocation next issues one straight
\* query at the unchanged candidate (no route request, no routed query), and then
\* returns a result with usedStraightFallback = true, the straight estimates of
\* that candidate as travelTimes and a null route for every point.
C1_Step ==
    /\ (Routed /\ pc = "await_loop" /\ AllSentinel(batch) /\ pc' # pc)
          => /\ pc' = "await_fallback"
             /\ currentMid' = currentMid
             /\ queries' = Append(queries, [mode |-> "straight", lng |-> currentMid.lng,
                                            lat |-> currentMid.lat])
             /\ sent' = sent
    /\ (Routed /\ pc = "await_fallback" /\ pc' # pc)
          => /\ pc' = "done"
             /\ queries' = queries
             /\ sent' = sent
             /\ ret'.kind = "result"
             /\ ret'.usedStraightFallback = "true"
             /\ ret'.midPoint = currentMid
             /\ ret'.travelTimes = StraightEstimate(currentMid)
             /\ ret'.routes = [k \in 1 .. Len(points) |-> NullRoute]
C1_TotalFailureFallback == [][C1_Step]_vars

\* A fallback result reached in the second iteration, with the SDK present.
C1_Witness ==
    /\ Returned /\ Routed /\ amapLoaded
    /\ ret.usedStraightFallback = "true"
    /\ i = 1
    /\ \E k \in DOMAIN ret.travelTimes : ret.travelTimes[k] > 0

\* C2 (as claimed): when the query of a loop iteration resolved at least one
\* point (a non-null route), the fallback is not taken; and the result returned
\* after the final query has usedStraightFallback = false and carries the
\* sentinel time and a null route for exactly the points whose final request
\* failed.
C2_Step ==
    /\ (Routed /\ pc = "await_loop" /\ AllResolved(batch) /\ pc' # pc
          /\ \E k \in DOMAIN batch.res : batch.res[k].route # NullRoute)
          => pc' # "await_fallback"
    /\ (Routed /\ pc = "await_final" /\ pc' = "done")
          => /\ ret'.kind = "result"
             /\ ret'.usedStraightFallback = "false"
             /\ \A k \in DOMAIN batch.res :
                    /\ (ret'.travelTimes[k] = SentinelTime) <=> (batch.res[k].route = NullRoute)
                    /\ (ret'.routes[k] = NullRoute) <=> (batch.res[k].route = NullRoute)
C2_PartialFailureNoFallback == [][C2_Step]_vars

\* C3: called with fewer than 2 points, in any mode, the invocation returns null
\* (InsufficientPoints) at once and has made no oracle query and no route request.
C3_InsufficientPoints ==
    (Len(points) < 2 /\ pc # "start")
        => /\ pc = "done"
           /\ ret = ReturnedNull
           /\ queries = <<>>
           /\ batch = NoBatch
           /\ \A k \in DOMAIN sent : sent[k] = 0

\* A one-point driving call has returned null.
C3_Witness == Len(points) = 1 /\ mode = "driving" /\ pc = "done" /\ ret = ReturnedNull

\* C4 (as claimed): every invocation eventually returns, also when the routing
\* service never answers one of the route requests.
C4_EventuallyReturns == <>(pc = "done")

\* C5: a returned result has one travel time and one route per input point, and
\* entry k is the one of points[k]: a route starts at points[k] and its time is
\* that route's rounded duration; a null route of a routed query carries 999; a
\* straight or fallback time is the estimate from points[k].
C5_EntriesAligned ==
    Returned =>
        /\ Len(ret.travelTimes) = Len(points)
        /\ Len(ret.routes) = Len(points)
        /\ \A k \in 1 .. Len(points) :
              IF ret.routes[k] # NullRoute
              THEN /\ ret.routes[k].from = <<points[k].lng, points[k].lat>>
                   /\ ret.travelTimes[k] = MathRound(Frac(ret.routes[k].duration, 60))
              ELSE IF ret.usedStraightFallback = "false"
              THEN ret.travelTimes[k] = SentinelTime
              ELSE ret.travelTimes[k] = StraightTime(points[k], ret.midPoint.lng,
                                                     ret.midPoint.lat)

\* A routed result over three points whose first and last entries differ.
C5_Witness ==
    /\ Returned /\ Routed /\ Len(points) = 3
    /\ ret.usedStraightFallback = "false"
    /\ ret.routes[1] # NullRoute
    /\ ret.routes[3] = NullRoute
    /\ ret.travelTimes[1] # ret.travelTimes[2]

\* The batch is complete, every point resolved, and all times are one valid time.
IdenticalValid(b) ==
    /\ AllResolved(b)
    /\ \A k \in DOMAIN b.res : b.res[k].route # NullRoute /\ b.res[k].time < 999
    /\ \A j, k \in DOMAIN b.res : b.res[j].time = b.res[k].time

\* C6: in a routed mode, when the first query reports identical valid times for
\* all points, the loop stops there without moving the candidate; and a result
\* returned after a stop in the first iteration has the unweighted centroid as
\* midPoint, after exactly two queries (the loop's and the final one), both at
\* the centroid.
C6_Step ==
    /\ (Routed /\ pc = "await_loop" /\ i = 0 /\ IdenticalValid(batch) /\ pc' # pc)
          => /\ pc' = "await_final"
             /\ i' = 0
             /\ currentMid' = currentMid
             /\ IsCentroid(currentMid)
    /\ (Routed /\ pc = "await_final" /\ i = 0 /\ pc' = "done")
          => /\ ret'.kind = "result"
             /\ IsCentroid(ret'.midPoint)
             /\ Len(queries') = 2
             /\ \A q \in DOMAIN queries' :
                    /\ queries'[q].mode = mode
                    /\ queries'[q].lng = ret'.midPoint.lng
                    /\ queries'[q].lat = ret'.midPoint.lat
C6_IdenticalTimesConverge == [][C6_Step]_vars

\* A driving result over three points returned after a stop in the first
\* iteration, the final query having resolved every point validly.
C6_Witness ==
    /\ Returned /\ mode = "driving" /\ Len(points) = 3
    /\ i = 0
    /\ ret.usedStraightFallback = "false"
    /\ \A k \in DOMAIN ret.travelTimes : ret.travelTimes[k] = 5

\* C7: in straight mode with at least 2 points the result's midPoint is the
\* arithmetic mean of the longitudes and of the latitudes ((5, 5) for the four
\* pool points), exactly one query was made, in straight mode and at that
\* midpoint, no loop iteration ran, no route was requested and every route is null.
C7_StraightCentroid ==
    (mode = "straight" /\ Len(points) >= 2 /\ pc = "done")
        => /\ ret.kind = "result"
           /\ IsCentroid(ret.midPoint)
           /\ (points = PointPool => ret.midPoint.lng = FInt(5) /\ ret.midPoint.lat = FInt(5))
           /\ queries = <<[mode |-> "straight", lng |-> ret.midPoint.lng,
                           lat |-> ret.midPoint.lat]>>
           /\ i = 0
           /\ \A k \in DOMAIN sent : sent[k] = 0
           /\ ret.routes = [k \in 1 .. Len(points) |-> NullRoute]
           /\ ret.travelTimes = StraightEstimate(ret.midPoint)

\* The straight result for (0,0), (0,10), (10,0), (10,10).
C7_Witness == mode = "straight" /\ points = PointPool /\ Returned /\ amapLoaded

\* The loop queries made so far: the routed queries but the final one.
LoopQueries ==
    RoutedQueries -
        (IF pc = "await_final" \/ (Returned /\ ret.usedStraightFallback = "false")
         THEN 1 ELSE 0)

\* C8: a routed invocation runs the loop at most maxIterations times and makes at
\* most maxIterations + 1 queries in all; every routed query consists of one
\* route request per input point, and no request is ever issued again.
C8_BoundedQueries ==
    Routed =>
        /\ i <= maxIterations
        /\ LoopQueries <= maxIterations
        /\ Len(queries) <= maxIterations + 1
        /\ \A k \in DOMAIN sent : sent[k] = RoutedQueries
        /\ DOMAIN sent = 1 .. Len(points)
        /\ batch.mode \in RoutedModes => DOMAIN batch.res = 1 .. Len(points)

\* An invocation that used all its iterations and its final query.
C8_Witness ==
    /\ Returned /\ Routed /\ Len(points) = 3
    /\ i = maxIterations /\ maxIterations = 2
    /\ Len(queries) = maxIterations + 1

\* C9 (as claimed): at most 2 route requests of a query are in flight at a time.
C9_AtMostTwoInFlight == batch.mode \in RoutedModes => InFlight(batch) <= 2

-----------------------------------------------------------------------------
(* Properties of buildNearestNeighborRoute                                 *)

\* How many times x occurs in sequence s.
Count(s, x) == Cardinality({k \in DOMAIN s : s[k] = x})

\* C10: every loop iteration selects one stop, so that the stops placed and the
\* stops remaining always make up the input list as a multiset; the function
\* returns after exactly one selection per stop with a multiset-equal
\* permutation of the input.
C10_Permutation ==
    nnPc \in {"loop", "done"} =>
        /\ Len(ordered) = nnSelections
        /\ Len(ordered) + Len(remaining) = Len(nnPoints)
        /\ \A x \in StopPool : Count(ordered, x) + Count(remaining, x) = Count(nnPoints, x)
        /\ nnPc = "done" =>
              /\ nnSelections = Len(nnPoints)
              /\ Len(ordered) = Len(nnPoints)
              /\ \A x \in StopPool : Count(ordered, x) = Count(nnPoints, x)

\* A returned order of four stops, one of them twice, that is not the input order.
C10_Witness ==
    /\ nnPc = "done"
    /\ Len(nnPoints) = 4
    /\ ordered # nnPoints
    /\ \E x \in StopPool : Count(nnPoints, x) = 2

-----------------------------------------------------------------------------
(* Properties of optimizeRoute2Opt                                         *)

\* The length of the path start -> r[1] -> ... -> r[n], in centimetres.
PathLength(start, r) ==
    SumSeq([k \in 1 .. Len(r) |-> getDistance(PointBefore(r, start, k), r[k])])

\* r with its positions ii .. kk in reverse order.
ReversedBetween(r, ii, kk) ==
    [k \in 1 .. Len(r) |-> IF ii <= k /\ k <= kk THEN r[ii + kk - k] ELSE r[k]]

\* The stops of a sequence of route items.
PointsOf(items) == [k \in 1 .. Len(items) |-> items[k].point]

\* C11: a pass of optimizeRoute2Opt that improves reverses one scanned stretch of
\* the route, and the path from start changes by exactly swappedDist - currentDist
\* of that pair, which is below -0.01 m; a pass that does not improve leaves the
\* route alone; and the order returned is no longer a path than the order passed in.
C11_Step ==
    /\ (optPc = "loop" /\ iterations' = iterations + 1 /\ improved')
          => \E p \in ScannedPairs(route) :
                /\ route' = ReversedBetween(route, p[1], p[2])
                /\ PathLength(optStart, route') - PathLength(optStart, route)
                      = swappedDist(route, optStart, p[1], p[2])
                          - currentDist(route, optStart, p[1], p[2])
                /\ swappedDist(route, optStart, p[1], p[2])
                      - currentDist(route, optStart, p[1], p[2]) < -OptTolerance
    /\ (optPc = "loop" /\ iterations' = iterations + 1 /\ ~improved')
          => route' = route
    /\ (optPc # "done" /\ optPc' = "done")
          => PathLength(optStart, optRet'.val) <= PathLength(optStart, optPoints)
C11_NeverLonger == [][C11_Step]_vars

\* A call on four stops that returned a shorter path after two reversals.
C11_Witness ==
    /\ optPc = "done" /\ optRet.ref = "route"
    /\ Len(optPoints) = 4
    /\ iterations >= 3
    /\ PathLength(optStart, optRet.val) < PathLength(optStart, optPoints)

\* C12: the route of optimizeRoute2Opt holds, at every pass and at the return,
\* exactly the stops passed in, each as often as it was passed; and the order the
\* memo builds by nearest-neighbour construction followed by 2-opt holds exactly
\* the trip points.
C12_OptPermutation ==
    /\ optPc = "loop" =>
          /\ Len(route) = Len(optPoints)
          /\ \A x \in StopPool : Count(route, x) = Count(optPoints, x)
    /\ optPc = "done" =>
          /\ Len(optRet.val) = Len(optPoints)
          /\ \A x \in StopPool : Count(optRet.val, x) = Count(optPoints, x)
    /\ (routeMode = "tsp" /\ routePoints.computed) =>
          /\ Len(routePoints.items) = Len(tripPoints)
          /\ \A x \in StopPool :
                Count(PointsOf(routePoints.items), x) = Count(tripPoints, x)

\* The memo's order of four trip points, one of them twice, after 2-opt changed
\* the nearest-neighbour order.
C12_Witness ==
    /\ routeMode = "tsp" /\ routePoints.computed
    /\ Len(tripPoints) = 4
    /\ \E x \in StopPool : Count(tripPoints, x) = 2
    /\ optRet.val # ordered

\* C13: when a call of optimizeRoute2Opt ended with a pass that found no improving
\* pair, calling it again on the returned order with the same start returns that
\* order.
C13_Idempotent ==
    (optPrev.kind = "call" /\ optPrev.exhausted /\ optPc = "done")
        => /\ optPoints = optPrev.output
           /\ optRet.val = optPrev.output

\* A second call after a first call that changed the order and ran out of
\* improving pairs.
C13_Witness ==
    /\ optPrev.kind = "call" /\ optPrev.exhausted /\ optPc = "done"
    /\ optPrev.output # optPrev.input
    /\ Len(optPoints) = 4

\* C14: called with fewer than 3 stops, optimizeRoute2Opt runs no pass and
\* returns the order passed in.
C14_ShortNoOp ==
    (Len(optPoints) < 3 /\ optPc = "done")
        => /\ optRet.val = optPoints
           /\ iterations = 0

\* Two stops returned in the order passed in although the other order is shorter.
C14_Witness ==
    /\ optPc = "done" /\ Len(optPoints) = 2
    /\ optRet.val = optPoints
    /\ PathLength(optStart, Reverse(optPoints)) + OptTolerance
          < PathLength(optStart, optPoints)

-----------------------------------------------------------------------------
(* Further properties of buildNearestNeighborRoute and of the memo         *)

\* C15: every selection of buildNearestNeighborRoute moves to the output a
\* remaining stop that is nearest to the previous output stop (to start at first),
\* and of the remaining stops at that distance the first one in remaining, which
\* keeps the input order.
C15_Step ==
    (nnPc = "loop" /\ nnSelections' = nnSelections + 1) =>
        /\ current = IF ordered = <<>> THEN nnStart ELSE ordered[Len(ordered)]
        /\ \E k \in DOMAIN remaining :
              /\ ordered' = Append(ordered, remaining[k])
              /\ remaining' = SubSeq(remaining, 1, k - 1)
                                \o SubSeq(remaining, k + 1, Len(remaining))
              /\ \A j \in DOMAIN remaining :
                    getDistance(current, remaining[k]) <= getDistance(current, remaining[j])
              /\ \A j \in 1 .. k - 1 :
                    getDistance(current, remaining[k]) < getDistance(current, remaining[j])
C15_NearestFirst == [][C15_Step]_vars

\* From (0, 0) the stops "b" and "a" are equally near; "b", passed first, was chosen.
C15_Witness ==
    /\ nnPc = "done" /\ Len(nnPoints) = 3
    /\ nnStart.lng = 0 /\ nnStart.lat = 0
    /\ nnPoints[1].id = "b" /\ nnPoints[2].id = "a" /\ nnPoints[3].id = "c"
    /\ ordered[1].id = "b" /\ ordered[2].id = "a"

\* C18: in 'nearby' mode the memo's value holds exactly the trip points, each with
\* its distance to myLocation, in ascending order of that distance, the trip
\* points at one distance in the order they have in tripPoints.
C18_NearbySorted ==
    (routeMode = "nearby" /\ routePoints.computed) =>
        LET items == routePoints.items
        IN  /\ Len(items) = Len(tripPoints)
            /\ \A k \in DOMAIN items :
                  items[k].distanceFromPrev = getDistance(myLocation, items[k].point)
            /\ \A j, k \in DOMAIN items :
                  j < k => items[j].distanceFromPrev <= items[k].distanceFromPrev
            /\ \A x \in StopPool : Count(PointsOf(items), x) = Count(tripPoints, x)
            /\ \A q \in DOMAIN tripPoints :
                  SelectSeq(PointsOf(items),
                            LAMBDA p : getDistance(myLocation, p)
                                          = getDistance(myLocation, tripPoints[q]))
                    = SelectSeq(tripPoints,
                                LAMBDA p : getDistance(myLocation, p)
                                              = getDistance(myLocation, tripPoints[q]))

\* Four trip points sorted from (0, 0): "e", "b" and "a" are equally near and keep
\* their order, "c" moved from the front to the end.
C18_Witness ==
    /\ routeMode = "nearby" /\ routePoints.computed
    /\ myLocation.lng = 0 /\ myLocation.lat = 0
    /\ Len(tripPoints) = 4
    /\ tripPoints[1].id = "c" /\ tripPoints[2].id = "e"
    /\ tripPoints[3].id = "b" /\ tripPoints[4].id = "a"
    /\ routePoints.items[1].point.id = "e"
    /\ routePoints.items[2].point.id = "b"
    /\ routePoints.items[3].point.id = "a"
    /\ routePoints.items[4].point.id = "c"

\* The points the route sequencer is working on.
PointsInPlay ==
    {myLocation, nnStart, optStart}
        \cup {tripPoints[k] : k \in DOMAIN tripPoints}
        \cup {nnPoints[k] : k \in DOMAIN nnPoints}
        \cup {optPoints[k] : k \in DOMAIN optPoints}

\* C20: calculateDistance gives the same distance in both directions and 0 from a
\* point to itself, for every pair of points of the grid, and so does getDistance
\* for every pair of points the route sequencer is working on.
C20_Symmetric ==
    /\ \A q \in DOMAIN HaversineCm :
          /\ calculateDistance(q[1], q[2], q[3], q[4])
                = calculateDistance(q[3], q[4], q[1], q[2])
          /\ calculateDistance(q[1], q[2], q[1], q[2]) = 0
    /\ \A a, b \in PointsInPlay :
          /\ getDistance(a, b) = getDistance(b, a)
          /\ getDistance(a, a) = 0

\* The memo measured a leg between two stops at one place and a leg between two
\* stops at different places.
C20_Witness ==
    /\ routeMode = "tsp" /\ routePoints.computed
    /\ \E k \in DOMAIN routePoints.items : routePoints.items[k].distanceFromPrev = 0
    /\ \E k \in DOMAIN routePoints.items : routePoints.items[k].distanceFromPrev > 0

-----------------------------------------------------------------------------
(* Properties of getBatchRouteTimes                                        *)

\* C16 (as claimed): a completed route request carries time 999 exactly when its
\* route is null, and the valid times of a loop query are the times of exactly
\* the points whose request produced a route.
C16_SentinelDistinguishable ==
    /\ batch.mode \in RoutedModes =>
          \A k \in DOMAIN batch.res :
              batch.res[k].st = "done" =>
                  (batch.res[k].time = SentinelTime <=> batch.res[k].route = NullRoute)
    /\ (pc = "await_loop" /\ AllResolved(batch)) =>
          Len(validTimes(BatchResult(batch.res).times))
              = Cardinality({k \in DOMAIN batch.res : batch.res[k].route # NullRoute})

\* C17: a straight query is complete when issued, with a number and a null route
\* for every point, whether or not the SDK is present; in a routed query a
\* request that is decided changes its own slot only, to a route with its rounded
\* minutes or, when no route came back or the route function threw, to time 999
\* with a null route: no slot is ever rejected.
C17_Step ==
    /\ (batch' # batch /\ batch'.mode = "straight")
          => /\ DOMAIN batch'.res = 1 .. Len(points)
             /\ \A k \in DOMAIN batch'.res :
                   /\ batch'.res[k].st = "done"
                   /\ batch'.res[k].route = NullRoute
                   /\ batch'.res[k].time \in Nat
    /\ (batch' # batch /\ queries' = queries /\ batch'.mode \in RoutedModes)
          => \E k \in DOMAIN batch.res :
                /\ DOMAIN batch'.res = DOMAIN batch.res
                /\ \A j \in DOMAIN batch.res \ {k} : batch'.res[j] = batch.res[j]
                /\ batch.res[k] = Pending
                /\ \/ batch'.res[k] = Stalled
                   \/ batch'.res[k] = Resolved(SentinelTime, NullRoute)
                   \/ /\ batch'.res[k].st = "done"
                      /\ batch'.res[k].route.kind = "route"
                      /\ batch'.res[k].route.from = <<points[k].lng, points[k].lat>>
                      /\ batch'.res[k].time
                            = MathRound(Frac(batch'.res[k].route.duration, 60))
C17_NeverRejects == [][C17_Step]_vars

\* A driving query over three points: the first request failed, the second
\* produced a 5-minute route, the third is still awaited.
C17_Witness ==
    /\ batch.mode = "driving" /\ Len(points) = 3 /\ amapLoaded
    /\ batch.res[1] = Resolved(SentinelTime, NullRoute)
    /\ batch.res[2].st = "done" /\ batch.res[2].time = 5
    /\ batch.res[3] = Pending

-----------------------------------------------------------------------------
(* Properties of the core as a whole                                       *)

\* C19 (as claimed): no step of calculateWeightedMidPoint (with calculateMidPoint),
\* buildNearestNeighborRoute or optimizeRoute2Opt changes the array it was passed
\* or a point in it, and the array a call returns is never the array it was passed.
C19_Step ==
    /\ points' = points
    /\ nnPc = "loop" => (nnPoints' = nnPoints /\ tripPoints' = tripPoints)
    /\ optPc \in {"call", "loop"} => optPoints' = optPoints
    /\ (optPc # "done" /\ optPc' = "done") => optRet'.ref # "points"
C19_InputsUntouched == [][C19_Step]_vars

-----------------------------------------------------------------------------
(* The weighted step, restated from the answers of the loop query          *)

\* The times of the complete loop query, and the positions with a valid time.
QueryTimes == [k \in DOMAIN batch.res |-> batch.res[k].time]
ValidAt == {k \in DOMAIN batch.res : batch.res[k].time < SentinelTime}

\* The mean of the valid times.
MeanTime ==
    Frac(SumSeq([k \in DOMAIN batch.res |-> IF k \in ValidAt THEN QueryTimes[k] ELSE 0]),
         Cardinality(ValidAt))

\* The point's own time when valid, the mean when it failed.
EffectiveTime(k) == IF k \in ValidAt THEN FInt(QueryTimes[k]) ELSE MeanTime

\* (effectiveTime / meanTime) squared.
PointWeight(k) ==
    FMul(FDiv(EffectiveTime(k), MeanTime), FDiv(EffectiveTime(k), MeanTime))
WeightSum == FSum([k \in DOMAIN batch.res |-> PointWeight(k)])

\* The weight-normalised centroid of the input points.
CentroidLng ==
    FDiv(FSum([k \in DOMAIN batch.res |-> FMul(FInt(points[k].lng), PointWeight(k))]),
         WeightSum)
CentroidLat ==
    FDiv(FSum([k \in DOMAIN batch.res |-> FMul(FInt(points[k].lat), PointWeight(k))]),
         WeightSum)

\* The step of a loop iteration that neither converged nor fell back.
MovingStep == pc = "await_loop" /\ i' = i + 1

FPositive(a) == a # NaN /\ ~FLeq(a, FInt(0))

\* C21: in every iteration that neither converged nor fell back, each point's
\* weight is (effectiveTime / meanTime) squared, so a failed point weighs exactly
\* 1, and the new candidate is the 50/50 midpoint of the previous candidate and
\* the weight-normalised centroid: twice the new coordinate is the old
\* coordinate plus the centroid's.
C21_Step ==
    MovingStep =>
        /\ \A k \in DOMAIN batch.res : k \notin ValidAt => PointWeight(k) = FInt(1)
        /\ currentMid'.kind = "point"
        /\ FMul(FInt(2), currentMid'.lng) = FAdd(currentMid.lng, CentroidLng)
        /\ FMul(FInt(2), currentMid'.lat) = FAdd(currentMid.lat, CentroidLat)
        /\ batch'.lng = currentMid'.lng /\ batch'.lat = currentMid'.lat
C21_WeightedStep == [][C21_Step]_vars

\* Three points whose first query answered 0, 5 and a failure: the weights are
\* 0, 4 and 1, the centroid is (2, 8), and the candidate has moved from
\* (10/3, 10/3) to (8/3, 17/3).
C21_Witness ==
    /\ Routed /\ Len(points) = 3 /\ i = 1
    /\ currentMid = [kind |-> "point", lng |-> Frac(8, 3), lat |-> Frac(17, 3)]

\* C22: a returned result takes its travelTimes and routes from the last query
\* issued, that query was made at the coordinates of the returned midPoint, in
\* straight mode when usedStraightFallback is true and in the selected mode
\* otherwise, and the candidate has not moved since that query.
C22_Step ==
    (ret' # ret /\ ret'.kind = "result") =>
        /\ queries' = queries
        /\ LET q == queries[Len(queries)]
           IN  /\ q.lng = ret'.midPoint.lng /\ q.lat = ret'.midPoint.lat
               /\ q.mode = batch.mode
               /\ q.mode = IF ret'.usedStraightFallback = "true" THEN "straight" ELSE mode
        /\ batch.lng = ret'.midPoint.lng /\ batch.lat = ret'.midPoint.lat
        /\ ret'.midPoint = currentMid /\ currentMid' = currentMid
        /\ ret'.travelTimes = [k \in DOMAIN batch.res |-> batch.res[k].time]
        /\ ret'.routes = [k \in DOMAIN batch.res |-> batch.res[k].route]
C22_ResultFromLastQuery == [][C22_Step]_vars

\* A fallback result returned after the candidate had moved, and a result of the
\* final query likewise.
C22_Witness ==
    /\ Returned /\ Routed /\ i = 1
    /\ ret.usedStraightFallback = "true"
    /\ ~IsCentroid(ret.midPoint)

\* C23: a driving or transit result that is not flagged as a fallback has a
\* travel time that is not the failure sentinel.
C23_NoUnflaggedTotalFailure ==
    (Returned /\ Routed /\ ret.usedStraightFallback # "true")
        => \E k \in DOMAIN ret.travelTimes : ret.travelTimes[k] # SentinelTime

\* C26: the queries of one invocation are sequential. A query is issued, and
\* route requests are started, only when no request of the query before is
\* unanswered; the candidate changes only on the complete answers of the query
\* before, and the new query is made at the new candidate.
C26_Step ==
    /\ queries' # queries =>
          /\ \A k \in DOMAIN batch.res : batch.res[k].st = "done"
          /\ Len(queries') = Len(queries) + 1
    /\ sent' # sent => \A k \in DOMAIN batch.res : batch.res[k].st = "done"
    /\ (currentMid' # currentMid /\ pc # "start") =>
          /\ \A k \in DOMAIN batch.res : batch.res[k].st = "done"
          /\ FMul(FInt(2), currentMid'.lng) = FAdd(currentMid.lng, CentroidLng)
          /\ FMul(FInt(2), currentMid'.lat) = FAdd(currentMid.lat, CentroidLat)
          /\ batch'.lng = currentMid'.lng /\ batch'.lat = currentMid'.lat
C26_SequentialBatches == [][C26_Step]_vars

\* The second loop query over three points, just issued with all its requests
\* unanswered, after the first was answered for every point.
C26_Witness ==
    /\ Routed /\ Len(points) = 3 /\ pc = "await_loop" /\ i = 1
    /\ Len(queries) = 2
    /\ \A k \in DOMAIN batch.res : batch.res[k] = Pending /\ sent[k] = 2

\* C27: the weighted step is taken only when there is a valid time and the valid
\* times differ by at least 5; the mean of the valid times and the total weight
\* are then strictly positive.
C27_Step ==
    MovingStep =>
        /\ ValidAt # {}
        /\ \E j, k \in ValidAt : QueryTimes[k] - QueryTimes[j] >= 5
        /\ FPositive(MeanTime)
        /\ FPositive(WeightSum)
C27_NoDivisionByZero == [][C27_Step]_vars

\* A weighted step was taken on the times 0 and 5, mean 5/2, with a time of 0
\* (a weight of 0) among them.
C27_Witness ==
    /\ Routed /\ Len(points) = 2 /\ i = 1
    /\ currentMid.kind = "point" /\ ~IsCentroid(currentMid)
    /\ Len(queries) = 2

\* The bounding box of the input points.
InBox(m) ==
    /\ m.kind = "point"
    /\ \E k \in DOMAIN points : FLeq(FInt(points[k].lng), m.lng)
    /\ \E k \in DOMAIN points : FLeq(m.lng, FInt(points[k].lng))
    /\ \E k \in DOMAIN points : FLeq(FInt(points[k].lat), m.lat)
    /\ \E k \in DOMAIN points : FLeq(m.lat, FInt(points[k].lat))

\* C28: every candidate of an invocation, and the returned midPoint, lies in the
\* bounding box of the input points, and every query is made inside it.
C28_InsideBoundingBox ==
    /\ pc \in Awaiting => InBox(currentMid)
    /\ ret.kind = "result" => InBox(ret.midPoint)
    /\ pc \in Awaiting => \A q \in DOMAIN queries :
           InBox([kind |-> "point", lng |-> queries[q].lng, lat |-> queries[q].lat])

\* A result returned after two weighted steps away from the centroid.
C28_Witness ==
    /\ Returned /\ Routed /\ Len(points) = 3 /\ i = 2
    /\ ~IsCentroid(ret.midPoint)

\* C29: when exactly one point of a loop query has a valid time, the iteration
\* stops the loop without moving the candidate and the final query follows at the
\* same candidate, whatever the time and however many points failed.
C29_Step ==
    (/\ pc = "await_loop"
     /\ \A k \in DOMAIN batch.res : batch.res[k].st = "done"
     /\ Cardinality(ValidAt) = 1
     /\ queries' # queries)
        => /\ pc' = "await_final"
           /\ i' = i
           /\ currentMid' = currentMid
           /\ queries'[Len(queries')] = [mode |-> mode, lng |-> currentMid.lng, lat |-> currentMid.lat]
C29_SingleValidConverges == [][C29_Step]_vars

\* The second loop query, at a moved candidate, has been answered: two of the
\* three points failed and the third took 5 minutes.
C29_Witness ==
    /\ Routed /\ Len(points) = 3 /\ i = 1
    /\ pc = "await_loop"
    /\ batch.res = <<Resolved(SentinelTime, NullRoute), Resolved(SentinelTime, NullRoute),
                     PointResult([kind |-> "route", via |-> mode, duration |-> 290,
                                  from |-> <<points[3].lng, points[3].lat>>,
                                  to |-> <<batch.lng, batch.lat>>])>>

-----------------------------------------------------------------------------
(* Properties of optimizeRoute2Opt: the scan and the pass limit            *)

\* The pair (ii, kk) improves the order r: the two changed edges, with the start
\* in front of position 1 and no edge after the last position.
Better(r, ii, kk) ==
    LET a == IF ii = 1 THEN optStart ELSE r[ii - 1]
        b == r[ii]
        c == r[kk]
        cur == getDistance(a, b) + (IF kk < Len(r) THEN getDistance(c, r[kk + 1]) ELSE 0)
        swp == getDistance(a, c) + (IF kk < Len(r) THEN getDistance(b, r[kk + 1]) ELSE 0)
    IN  swp + 1 < cur

\* (ii, kk) comes before (jj, ll) in the order of the two loops.
ScannedBefore(ii, kk, jj, ll) == ii < jj \/ (ii = jj /\ kk < ll)

\* C24: a pass reverses route[i..k] for the first pair (i, k), i < k, in
\* lexicographic order that improves the route, does nothing more in that pass,
\* and sets improved; a pass that finds no such pair leaves the route as it is
\* and clears improved, and the next step is the return of that route.
C24_Step ==
    /\ (optPc = "loop" /\ iterations' = iterations + 1) =>
          IF \E ii \in 1 .. Len(route), kk \in 1 .. Len(route) :
                 ii < kk /\ Better(route, ii, kk)
          THEN \E ii \in 1 .. Len(route), kk \in 1 .. Len(route) :
                 /\ ii < kk /\ Better(route, ii, kk)
                 /\ \A jj \in 1 .. Len(route), ll \in 1 .. Len(route) :
                        (jj < ll /\ ScannedBefore(jj, ll, ii, kk)) => ~Better(route, jj, ll)
                 /\ route' = [n \in 1 .. Len(route) |->
                                 IF ii <= n /\ n <= kk THEN route[ii + kk - n] ELSE route[n]]
                 /\ improved'
          ELSE route' = route /\ ~improved'
    /\ (optPc = "loop" /\ ~improved /\ optVars' # optVars) =>
          /\ optPc' = "done"
          /\ optRet'.val = route
C24_FirstImprovement == [][C24_Step]_vars

\* A later pass of a call faces an order with two or more improving pairs whose
\* first and last differ.
C24_Witness ==
    /\ optPc = "loop" /\ improved /\ iterations >= 1 /\ iterations < 6
    /\ \E p, q \in ImprovingPairs(route, optStart) : p[1] < q[1]

\* C25: a call applies at most 6 reversals, never more than it has made passes,
\* and the order it returns contains an improving pair only if exactly 6
\* reversals were applied.
C25_AtMostSixReversals ==
    /\ reversals <= 6
    /\ reversals <= iterations
    /\ (optPc = "done" /\ optRet.ref = "route"
        /\ \E ii \in 1 .. Len(optRet.val), kk \in 1 .. Len(optRet.val) :
               ii < kk /\ Better(optRet.val, ii, kk))
          => reversals = 6

\* A call returned after 6 reversals an order that still has an improving pair.
C25_Witness ==
    /\ optPc = "done" /\ optRet.ref = "route" /\ reversals = 6
    /\ ImprovingPairs(optRet.val, optStart) # {}

-----------------------------------------------------------------------------
(* Properties of TripPlanPage                                              *)

\* C30: once the scheduled effect has run, isComputed = true implies that
\* myLocation is set, that tripPoints is not empty, and that tripPoints,
\* myLocation and routeMode are those of the compute action that set it; the
\* memo is a ranked route only then, and it is the ranking of those inputs.
C30_NoStaleRoute ==
    /\ (~effect.pending /\ isComputed) =>
          /\ myLocation # NullLocation
          /\ Len(tripPoints) > 0
          /\ computedFor = Inputs(tripPoints, myLocation, routeMode)
    /\ (~effect.pending /\ routePoints.computed) =>
          /\ isComputed
          /\ computedFor.kind = "inputs"
          /\ Len(routePoints.items) = Len(computedFor.tripPoints)
          /\ \A x \in StopPool :
                 Count(PointsOf(routePoints.items), x) = Count(computedFor.tripPoints, x)
          /\ routePoints = MemoValue(computedFor.tripPoints, computedFor.myLocation, TRUE,
                                    computedFor.routeMode)

\* A route was computed, an input changed and the effect reset isComputed; the
\* route was then computed again for three trip points in nearby mode.
C30_Witness ==
    /\ ~effect.pending /\ isComputed
    /\ routeMode = "nearby" /\ Len(tripPoints) = 3
    /\ myLocation = [id |-> "me", lng |-> 2, lat |-> 1]
    /\ routePoints.computed
    /\ PointsOf(routePoints.items) # tripPoints

====
